---- MODULE Spec2Model ----
(***************************************************************************)
(* Model of easykeras/preprocessing/text.py: class TextProcessor, a thin   *)
(* wrapper around a Keras Tokenizer (created once in __init__) and         *)
(* pad_sequences.                                                          *)
(*                                                                         *)
(* A text is modelled as the sequence of its space-separated raw words; a  *)
(* batch is a sequence of texts; the *texts argument of a method is a      *)
(* sequence of batches.  A Python dict is a TLA+ function, a numpy array   *)
(* is a record with its shape and its rows (column j of the array is       *)
(* position j+1 of a row), the floats 0.0 / 1.0 of the bag-of-words array  *)
(* are written 0 / 1.  An exception that leaves a method is recorded as    *)
(* the value the call produced.                                            *)
(*                                                                         *)
(* Tokenizer and pad_sequences are the Keras library's; text.py only calls *)
(* them (lines 20, 76, 83, 85).  They are modelled by what the library     *)
(* does with its default arguments: fit_on_texts lower-cases, counts the   *)
(* words in an ordered dict that lives as long as the tokenizer and ranks  *)
(* them by count with a stable sort; texts_to_sequences skips unknown      *)
(* words; pad_sequences pads and truncates at the front and fills the row  *)
(* by the numpy assignment x[idx, -len(trunc):] = trunc.  word_docs and    *)
(* document_count of the tokenizer are read by no method and are left out. *)
(*                                                                         *)
(* The processor is used by one caller (spec.md section 5): a call runs    *)
(* to completion and leaves its arguments and its result in op, length,    *)
(* texts and ret; the caller then drops the result (Discard) and is free   *)
(* to make the next call.                                                  *)
(***************************************************************************)
EXTENDS Integers, Sequences, FiniteSets

\* ---------------------------------------------------------------- bounds
MaxBatches == 2   \* batches passed to one call
MaxTexts   == 2   \* texts passed to one call, over all its batches
MaxTokens  == 2   \* words passed to one call, over all its texts
MaxLength  == 2   \* largest length argument of texts_to_num
MaxCount   == 3   \* words the tokenizer has counted, over all fits

\* Raw words of the input texts.  "B" is an upper-case word: the tokenizer
\* lower-cases it, so "b" and "B" are one token.
Words == {"a", "b", "B"}

VARIABLES
    has_dic,      \* self.has_dic
    word_counts,  \* self.tokenizer.word_counts: <<word, count>> in insertion order
    word_index,   \* self.tokenizer.word_index: word -> index
    op,           \* the method of the completed call, "none" when no result is pending
    length,       \* its length argument (0 when the method has none)
    texts,        \* its *texts argument
    ret           \* what it returned or raised

vars == <<has_dic, word_counts, word_index, op, length, texts, ret>>
tokenizer == <<word_counts, word_index>>

\* -------------------------------------------------------- Python values
None == [kind |-> "None"]
ValueError == [kind |-> "ValueError"]
IndexError == [kind |-> "IndexError"]
PyInt(n) == [kind |-> "int", val |-> n]
PyDict(d) == [kind |-> "dict", val |-> d]
PyTuple(s) == [kind |-> "tuple", val |-> s]
ndarray(rows, cols, data) == [kind |-> "ndarray", shape |-> <<rows, cols>>, val |-> data]

Min(a, b) == IF a < b THEN a ELSE b
Zeros(n) == [i \in 1..n |-> 0]
IsError(v) == v.kind \in {"ValueError", "IndexError"}

\* ------------------------------------------------------- input universe
RECURSIVE SumLen(_)
SumLen(ss) == IF ss = <<>> THEN 0 ELSE Len(Head(ss)) + SumLen(Tail(ss))

TextsOfLen(n) == [1..n -> Words]
AllTexts == UNION {TextsOfLen(n) : n \in 0..MaxTokens}
\* flat lists of texts within the bounds of one call
FlatLists ==
    {f \in UNION {[1..s -> AllTexts] : s \in 0..MaxTexts} : SumLen(f) <= MaxTokens}
\* cut points splitting a flat list of s texts into k batches
Cuts(k, s) == {c \in [0..k -> 0..s] : /\ c[0] = 0
                                      /\ c[k] = s
                                      /\ \A j \in 1..k : c[j-1] <= c[j]}
Split(f, k, c) == [j \in 1..k |-> SubSeq(f, c[j-1] + 1, c[j])]
ArgTexts ==
    UNION {UNION {{Split(f, k, c) : c \in Cuts(k, Len(f))} : k \in 0..MaxBatches}
           : f \in FlatLists}

\* ------------------------------------------------------ keras Tokenizer
\* str.lower
Lower(w) == IF w = "B" THEN "b" ELSE w

\* text_to_word_sequence(text, lower=True): the words of the text, lower-cased
text_to_word_sequence(text) == [i \in 1..Len(text) |-> Lower(text[i])]

HasWord(wc, w) == \E i \in 1..Len(wc) : wc[i][1] = w

\* word_counts[w] += 1, or word_counts[w] = 1 for a new word (appended: the
\* dict is an OrderedDict)
CountWord(wc, w) ==
    IF HasWord(wc, w)
    THEN [i \in 1..Len(wc) |-> IF wc[i][1] = w THEN <<w, wc[i][2] + 1>> ELSE wc[i]]
    ELSE Append(wc, <<w, 1>>)

RECURSIVE CountSeq(_, _)
CountSeq(wc, seq) ==
    IF seq = <<>> THEN wc ELSE CountSeq(CountWord(wc, Head(seq)), Tail(seq))

RECURSIVE CountTexts(_, _)
CountTexts(wc, list) ==
    IF list = <<>> THEN wc
    ELSE CountTexts(CountSeq(wc, text_to_word_sequence(Head(list))), Tail(list))

\* The position of entry i of word_counts after
\* wcounts.sort(key=lambda x: x[1], reverse=True): by count, largest first; the
\* sort is stable, so equal counts keep their insertion order.
RankNoTieBreak(wc, i) ==
    1 + Cardinality({j \in 1..Len(wc) : wc[j][2] > wc[i][2]})

Rank(wc, i) ==
    1 + Cardinality({j \in 1..Len(wc) :
                        \/ wc[j][2] > wc[i][2]
                        \/ wc[j][2] = wc[i][2] /\ j < i})

\* word_index = dict(zip(sorted_voc, range(1, len(sorted_voc) + 1)))
BuildIndex(wc) ==
    [w \in {wc[i][1] : i \in 1..Len(wc)} |->
        Rank(wc, CHOOSE i \in 1..Len(wc) : wc[i][1] = w)]

\* Tokenizer.fit_on_texts: the counts go on from those of the earlier fits
fit_fresh(wc, list) == CountTexts(<<>>, list)

fit_on_texts(wc, list) == CountTexts(wc, list)

\* one text of Tokenizer.texts_to_sequences (num_words and oov_token are None):
\* the index of every word that is in word_index, in order; other words are
\* skipped
RECURSIVE SeqOf(_, _)
SeqOf(wi, seq) ==
    IF seq = <<>> THEN <<>>
    ELSE IF Head(seq) \in DOMAIN wi
         THEN <<wi[Head(seq)]>> \o SeqOf(wi, Tail(seq))
         ELSE SeqOf(wi, Tail(seq))

texts_to_sequences(wi, batch) ==
    [t \in 1..Len(batch) |-> SeqOf(wi, text_to_word_sequence(batch[t]))]

\* ------------------------------------------------- keras pad_sequences
\* s[-maxlen:]  (Python: s[-0:] is the whole of s)
TruncPost(s, maxlen) == SubSeq(s, 1, Min(maxlen, Len(s)))

TruncPre(s, maxlen) ==
    IF maxlen = 0 THEN s
    ELSE SubSeq(s, Len(s) - Min(maxlen, Len(s)) + 1, Len(s))

\* width of the slice x[idx, -len(trunc):] of a row of maxlen columns
SlotWidth(s, maxlen) == Min(Len(TruncPre(s, maxlen)), maxlen)

\* numpy accepts x[idx, -len(trunc):] = trunc when trunc has the slice's width,
\* or has one element (which is broadcast); otherwise it raises ValueError
PadFits(s, maxlen) ==
    \/ Len(s) = 0
    \/ Len(TruncPre(s, maxlen)) = SlotWidth(s, maxlen)
    \/ Len(TruncPre(s, maxlen)) = 1

\* one row of pad_sequences(sequences, maxlen), padding='pre', truncating='pre',
\* value=0, for a sequence that fits
PadRow(s, maxlen) ==
    IF Len(s) = 0 THEN Zeros(maxlen)
    ELSE IF Len(TruncPre(s, maxlen)) = SlotWidth(s, maxlen)
         THEN Zeros(maxlen - SlotWidth(s, maxlen)) \o TruncPre(s, maxlen)
         ELSE Zeros(maxlen - SlotWidth(s, maxlen))
                \o [i \in 1..SlotWidth(s, maxlen) |-> TruncPre(s, maxlen)[1]]

pad_sequences(sequences, maxlen) ==
    IF \E i \in 1..Len(sequences) : ~PadFits(sequences[i], maxlen)
    THEN ValueError
    ELSE ndarray(Len(sequences), maxlen,
                 [i \in 1..Len(sequences) |-> PadRow(sequences[i], maxlen)])

\* ------------------------------------------------------- TextProcessor
\* list = []; for text in texts: list.extend(text)
FlattenFirst(batches) == IF batches = <<>> THEN <<>> ELSE Head(batches)

RECURSIVE Flatten(_)
Flatten(batches) ==
    IF batches = <<>> THEN <<>> ELSE Head(batches) \o Flatten(Tail(batches))

\* tuple([None for x in range(len(texts))])
NoneTupleShort(k) == PyTuple([i \in 1..(k - 1) |-> None])

NoneTuple(k) == PyTuple([i \in 1..k |-> None])

\* tuple([f(x) for x in texts]): the first exception raised by an element
\* leaves the comprehension
TupleOf(results) ==
    IF \E i \in 1..Len(results) : IsError(results[i])
    THEN results[CHOOSE i \in 1..Len(results) :
                    /\ IsError(results[i])
                    /\ \A j \in 1..(i - 1) : ~IsError(results[j])]
    ELSE PyTuple(results)

\* TextProcessor._process_text
process_text_post(wi, batch, len) ==
    ndarray(Len(batch), len,
            [i \in 1..Len(batch) |->
                LET s == texts_to_sequences(wi, batch)[i]
                IN  Zeros(len - Min(len, Len(s))) \o TruncPost(s, len)])

process_text(wi, batch, len) == pad_sequences(texts_to_sequences(wi, batch), len)

\* TextProcessor._vectorize_sequences: results[i, sequence] = 1. sets column j
\* of row i for every index j of the sequence; an index that is not a column
\* raises IndexError
vectorize_sequences_shifted(wi, batch, dimension) ==
    LET sequences == texts_to_sequences(wi, batch)
    IN  ndarray(Len(sequences), dimension,
                [i \in 1..Len(sequences) |->
                    [c \in 1..dimension |->
                        IF \E p \in 1..Len(sequences[i]) : sequences[i][p] = c
                        THEN 1 ELSE 0]])

vectorize_sequences(wi, batch, dimension) ==
    LET sequences == texts_to_sequences(wi, batch)
    IN  IF \E i \in 1..Len(sequences) : \E p \in 1..Len(sequences[i]) :
              sequences[i][p] >= dimension
        THEN IndexError
        ELSE ndarray(Len(sequences), dimension,
                     [i \in 1..Len(sequences) |->
                        [c \in 1..dimension |->
                            IF \E p \in 1..Len(sequences[i]) : sequences[i][p] = c - 1
                            THEN 1 ELSE 0]])

\* TextProcessor.get_words_num, as a function of the processor's fields
GetWordsNum(hd, wi) == IF ~hd THEN 0 ELSE Cardinality(DOMAIN wi)

RECURSIVE Counted(_)
Counted(wc) == IF wc = <<>> THEN 0 ELSE Head(wc)[2] + Counted(Tail(wc))

\* ---------------------------------------------------------------- state
EmptyDict == [w \in {} |-> 0]

\* TextProcessor.__init__: a new Tokenizer, has_dic = False
Init ==
    /\ has_dic = FALSE
    /\ word_counts = <<>>
    /\ word_index = EmptyDict
    /\ op = "none"
    /\ length = 0
    /\ texts = <<>>
    /\ ret = None

get_vocabulary_unguarded ==
    /\ op = "none"
    /\ op' = "get_vocabulary"
    /\ length' = 0
    /\ texts' = <<>>
    /\ ret' = PyDict(word_index)
    /\ UNCHANGED <<has_dic, word_counts, word_index>>

get_vocabulary ==
    /\ op = "none"
    /\ op' = "get_vocabulary"
    /\ length' = 0
    /\ texts' = <<>>
    /\ ret' = IF ~has_dic THEN None ELSE PyDict(word_index)
    /\ UNCHANGED <<has_dic, word_counts, word_index>>

get_words_num ==
    /\ op = "none"
    /\ op' = "get_words_num"
    /\ length' = 0
    /\ texts' = <<>>
    /\ ret' = PyInt(GetWordsNum(has_dic, word_index))
    /\ UNCHANGED <<has_dic, word_counts, word_index>>

\* the fit of read_all_texts, for a flattened list that is not empty
ReadFit(list) ==
    /\ word_counts' = fit_on_texts(word_counts, list)
    /\ word_index' = BuildIndex(word_counts')
    /\ has_dic' = TRUE
    /\ ret' = PyDict(word_index')

read_all_texts_flag_follows_input ==
    /\ op = "none"
    /\ \E t \in ArgTexts :
        /\ Counted(word_counts) + SumLen(Flatten(t)) <= MaxCount
        /\ op' = "read_all_texts"
        /\ length' = 0
        /\ texts' = t
        /\ IF Len(Flatten(t)) = 0
           THEN /\ ret' = None
                /\ has_dic' = FALSE
                /\ UNCHANGED <<word_counts, word_index>>
           ELSE ReadFit(Flatten(t))

read_all_texts_unchecked ==
    /\ op = "none"
    /\ \E t \in ArgTexts :
        /\ Counted(word_counts) + SumLen(Flatten(t)) <= MaxCount
        /\ op' = "read_all_texts"
        /\ length' = 0
        /\ texts' = t
        /\ ReadFit(Flatten(t))

read_all_texts ==
    /\ op = "none"
    /\ \E t \in ArgTexts :
        /\ Counted(word_counts) + SumLen(Flatten(t)) <= MaxCount
        /\ op' = "read_all_texts"
        /\ length' = 0
        /\ texts' = t
        /\ IF Len(Flatten(t)) = 0
           THEN /\ ret' = None
                /\ UNCHANGED <<has_dic, word_counts, word_index>>
           ELSE ReadFit(Flatten(t))

texts_to_num ==
    /\ op = "none"
    /\ \E len \in 0..MaxLength, t \in ArgTexts :
        /\ op' = "texts_to_num"
        /\ length' = len
        /\ texts' = t
        /\ ret' = IF ~has_dic
                  THEN NoneTuple(Len(t))
                  ELSE TupleOf([b \in 1..Len(t) |-> process_text(word_index, t[b], len)])
    /\ UNCHANGED <<has_dic, word_counts, word_index>>

texts_to_bow ==
    /\ op = "none"
    /\ \E t \in ArgTexts :
        /\ op' = "texts_to_bow"
        /\ length' = 0
        /\ texts' = t
        /\ ret' = IF ~has_dic
                  THEN NoneTuple(Len(t))
                  ELSE TupleOf([b \in 1..Len(t) |->
                          vectorize_sequences(word_index, t[b],
                                              GetWordsNum(has_dic, word_index) + 1)])
    /\ UNCHANGED <<has_dic, word_counts, word_index>>

\* the caller drops the result of the completed call
Discard ==
    /\ op # "none"
    /\ op' = "none"
    /\ length' = 0
    /\ texts' = <<>>
    /\ ret' = None
    /\ UNCHANGED <<has_dic, word_counts, word_index>>

Next ==
    \/ get_vocabulary
    \/ get_words_num
    \/ read_all_texts
    \/ texts_to_num
    \/ texts_to_bow
    \/ Discard

Spec == Init /\ [][Next]_vars

\* ------------------------------------------------------------ properties
ReadOps == {"get_vocabulary", "get_words_num", "texts_to_num", "texts_to_bow"}
EncodeOps == {"texts_to_num", "texts_to_bow"}

\* the batches of a call hold at least one text
NonEmptyInput(batches) == \E b \in 1..Len(batches) : Len(batches[b]) > 0

\* the distinct tokens of all texts of all batches of a call
TokensOf(batches) ==
    UNION {UNION {{Lower(batches[b][t][p]) : p \in 1..Len(batches[b][t])}
                  : t \in 1..Len(batches[b])}
           : b \in 1..Len(batches)}

\* the indices of the tokens of a text that are in the vocabulary, in order
Known(wi, text) ==
    LET InVoc(w) == Lower(w) \in DOMAIN wi
        kept == SelectSeq(text, InVoc)
    IN  [p \in 1..Len(kept) |-> wi[Lower(kept[p])]]

IndexSet(wi) == {wi[w] : w \in DOMAIN wi}

\* C1: on a processor whose vocabulary is not built, texts_to_num and
\* texts_to_bow return a tuple of exactly as many nulls as batches were
\* passed, raise nothing, and leave has_dic false.
C1_UnbuiltEncodeReturnsNulls ==
    [][(~has_dic /\ op' \in EncodeOps) =>
          /\ ret'.kind = "tuple"
          /\ Len(ret'.val) = Len(texts')
          /\ \A i \in 1..Len(ret'.val) : ret'.val[i].kind = "None"
          /\ ~has_dic']_vars

C1_Witness ==
    /\ ~has_dic
    /\ op = "texts_to_bow"
    /\ Len(texts) = 2
    /\ NonEmptyInput(texts)
    /\ ret.kind = "tuple"

\* C2: read_all_texts with no batch or only empty batches returns null and
\* changes neither has_dic nor the tokenizer's vocabulary.
C2_EmptyReadIsSoftFailure ==
    [][(op' = "read_all_texts" /\ ~NonEmptyInput(texts')) =>
          /\ ret'.kind = "None"
          /\ has_dic' = has_dic
          /\ word_index' = word_index
          /\ word_counts' = word_counts]_vars

C2_Witness ==
    /\ ~has_dic
    /\ op = "read_all_texts"
    /\ Len(texts) = 2
    /\ ~NonEmptyInput(texts)
    /\ ret.kind = "None"

\* C3: after read_all_texts with a non-empty flattened list has_dic is true,
\* get_words_num() is the number of entries of the returned vocabulary, and
\* the vocabulary's indices are exactly 1..N: no 0, no repeat, no gap.
C3_IndicesAreOneToN ==
    (op = "read_all_texts" /\ NonEmptyInput(texts)) =>
        /\ has_dic
        /\ ret.kind = "dict"
        /\ ret.val = word_index
        /\ GetWordsNum(has_dic, word_index) = Cardinality(DOMAIN ret.val)
        /\ IndexSet(ret.val) = 1..GetWordsNum(has_dic, word_index)
        /\ \A v, w \in DOMAIN ret.val : ret.val[v] = ret.val[w] => v = w

C3_Witness ==
    /\ op = "read_all_texts"
    /\ NonEmptyInput(texts)
    /\ Cardinality(DOMAIN word_index) = 2
    /\ \E i, j \in 1..Len(word_counts) : i # j /\ word_counts[i][2] = word_counts[j][2]

\* C4 as stated: every read_all_texts with a non-empty flattened list leaves a
\* vocabulary whose keys are exactly the distinct tokens of the batches of
\* that call, and get_words_num() is their count.
C4_KeysAreThisCallsTokens ==
    (op = "read_all_texts" /\ NonEmptyInput(texts)) =>
        /\ DOMAIN word_index = TokensOf(texts)
        /\ GetWordsNum(has_dic, word_index) = Cardinality(TokensOf(texts))

\* C4 amended: read_all_texts with a non-empty flattened list leaves one
\* vocabulary for all its batches, whose keys are exactly the distinct tokens
\* of all batches of the call together with the keys fitted by earlier calls;
\* get_words_num() is their count.  On a processor that has fitted nothing
\* yet the keys are exactly the distinct tokens of the batches of the call.
C4_KeysAreAllFittedTokens ==
    [][(op' = "read_all_texts" /\ NonEmptyInput(texts')) =>
          /\ DOMAIN word_index' = DOMAIN word_index \cup TokensOf(texts')
          /\ GetWordsNum(has_dic', word_index')
                = Cardinality(DOMAIN word_index \cup TokensOf(texts'))
          /\ word_counts = <<>> =>
                /\ DOMAIN word_index' = TokensOf(texts')
                /\ GetWordsNum(has_dic', word_index') = Cardinality(TokensOf(texts'))]_vars

C4_Witness ==
    /\ op = "read_all_texts"
    /\ Len(texts) = 2
    /\ Len(texts[1]) > 0
    /\ Len(texts[2]) > 0
    /\ TokensOf(<<texts[1]>>) \cap TokensOf(<<texts[2]>>) = {}
    /\ Counted(word_counts) = 2
    /\ GetWordsNum(has_dic, word_index) = 2

\* C5 as stated: with a built vocabulary texts_to_num(L, b1..bk) returns a
\* tuple of k matrices, the matrix of a batch having len(batch) rows and L
\* columns, for every L >= 0.
C5_ShapeLaw ==
    (op = "texts_to_num" /\ has_dic) =>
        /\ ret.kind = "tuple"
        /\ Len(ret.val) = Len(texts)
        /\ \A b \in 1..Len(texts) :
              /\ ret.val[b].kind = "ndarray"
              /\ ret.val[b].shape = <<Len(texts[b]), length>>

\* C6: with a built vocabulary, the row of a text in a texts_to_num(L, ...)
\* matrix is its sequence of known-token indices, left-padded with zeros when
\* it has fewer than L indices and cut to its last L indices when it has more.
C6_PadAndTruncate ==
    (op = "texts_to_num" /\ has_dic /\ ret.kind = "tuple") =>
        \A b \in 1..Len(texts) : \A i \in 1..Len(texts[b]) :
            LET s == Known(word_index, texts[b][i])
                m == Len(s)
                row == ret.val[b].val[i]
            IN  /\ m < length => row = Zeros(length - m) \o s
                /\ m > length => row = SubSeq(s, m - length + 1, m)
                /\ m = length => row = s

C6_Witness ==
    /\ op = "texts_to_num"
    /\ has_dic
    /\ ret.kind = "tuple"
    /\ \E b \in 1..Len(texts) : \E i, j \in 1..Len(texts[b]) :
          /\ Len(Known(word_index, texts[b][i])) > length
          /\ Len(Known(word_index, texts[b][j])) < length

\* C7: with a built vocabulary of N words texts_to_bow(b1..bk) returns k
\* matrices in batch order, each of len(batch) rows and N+1 columns, with
\* cell (i, j) equal to 1.0 exactly when index j is among the known-token
\* indices of text i and 0.0 otherwise; column 0 is 0.0 everywhere.
C7_BagOfWords ==
    (op = "texts_to_bow" /\ has_dic) =>
        LET N == Cardinality(DOMAIN word_index)
        IN  /\ ret.kind = "tuple"
            /\ Len(ret.val) = Len(texts)
            /\ \A b \in 1..Len(texts) :
                  /\ ret.val[b].kind = "ndarray"
                  /\ ret.val[b].shape = <<Len(texts[b]), N + 1>>
                  /\ Len(ret.val[b].val) = Len(texts[b])
                  /\ \A i \in 1..Len(texts[b]) :
                        LET s == Known(word_index, texts[b][i])
                            row == ret.val[b].val[i]
                        IN  /\ Len(row) = N + 1
                            /\ row[1] = 0
                            /\ \A j \in 0..N :
                                  row[j + 1] = IF \E p \in 1..Len(s) : s[p] = j
                                               THEN 1 ELSE 0

C7_Witness ==
    /\ op = "texts_to_bow"
    /\ has_dic
    /\ Cardinality(DOMAIN word_index) = 2
    /\ Len(texts) = 2
    /\ \E b \in 1..Len(texts) : \E i \in 1..Len(texts[b]) :
          LET s == Known(word_index, texts[b][i])
          IN  Len(s) = 2 /\ s[1] = s[2]

\* C8: get_vocabulary, get_words_num, texts_to_num and texts_to_bow change
\* neither has_dic nor the vocabulary; get_vocabulary() returns the (non-null)
\* mapping of a built processor and null on an unbuilt one, where
\* get_words_num() returns 0.
C8_ReadsHaveNoEffect ==
    /\ [](/\ (op = "get_vocabulary" /\ has_dic) =>
                (ret.kind = "dict" /\ ret.val = word_index)
          /\ (op = "get_vocabulary" /\ ~has_dic) => ret.kind = "None"
          /\ (op = "get_words_num" /\ ~has_dic) => (ret.kind = "int" /\ ret.val = 0))
    /\ [][op' \in ReadOps =>
            /\ has_dic' = has_dic
            /\ word_index' = word_index
            /\ word_counts' = word_counts]_vars

C8_Witness ==
    /\ op = "get_vocabulary"
    /\ has_dic
    /\ ret.kind = "dict"
    /\ Cardinality(DOMAIN ret.val) = 2

\* C9: a new processor has has_dic false; has_dic becomes true only by a
\* read_all_texts call with a non-empty flattened list; once true it is
\* never false again, whatever is called.
C9_Lifecycle ==
    /\ ~has_dic
    /\ [][/\ has_dic => has_dic'
          /\ (~has_dic /\ has_dic') =>
                (op' = "read_all_texts" /\ NonEmptyInput(texts'))]_vars

C9_Witness ==
    /\ has_dic
    /\ op = "read_all_texts"
    /\ ~NonEmptyInput(texts)

\* C10: over any number of read_all_texts calls the vocabulary only grows: a
\* token in it stays in it (its index may change), get_words_num() never
\* decreases, and the indices are exactly 1..N after each call.
C10_VocabularyOnlyGrows ==
    [][op' = "read_all_texts" =>
          /\ DOMAIN word_index \subseteq DOMAIN word_index'
          /\ GetWordsNum(has_dic', word_index') >= GetWordsNum(has_dic, word_index)
          /\ IndexSet(word_index') = 1..Cardinality(DOMAIN word_index')]_vars

C10_Witness ==
    /\ op = "read_all_texts"
    /\ NonEmptyInput(texts)
    /\ Counted(word_counts) > SumLen(Flatten(texts))
    /\ Len(word_counts) = 2
    /\ word_index[word_counts[1][1]] = 2

====
